---- MODULE Spec2Model ----
(***************************************************************************)
(* Yellowgram messenger, src/server.js: the socket.io event handlers over  *)
(* three nedb datastores (users, messages, groups) and the in-memory       *)
(* registry onlineUsers.                                                   *)
(*                                                                         *)
(* Every handler is an async function.  It runs synchronously up to its    *)
(* first await and is resumed after each awaited datastore operation, so a *)
(* handler is a chain of steps; one step is "the awaited operation takes   *)
(* effect and the code after it runs up to the next await".  Steps of      *)
(* handlers of different connections interleave freely.  A connection has  *)
(* at most one handler in flight (pc[c] # "idle" while it is suspended).   *)
(* Where the synchronous prefix of a handler only reads socket.username    *)
(* and its first continuation does not touch onlineUsers, the prefix and   *)
(* the first step are one action (they commute with every other step).     *)
(***************************************************************************)
EXTENDS Naturals, Sequences, FiniteSets, TLC

\* ---------------------------------------------------------------- bounds
\* cap on the documents of messages.db
MaxMsgs == 2
\* cap on the documents of groups.db
MaxGroups == 2

\* sockets that connect during a run; socket.id is the connection itself
Conns == {"c1", "c2", "c3"}
\* usernames clients type
Names == {"alice", "bob"}
\* passwords clients type
Passwords == {"pw1", "pw2"}
\* group names clients type
GroupNames == {"team"}

\* undefined / null in the JavaScript
None == "none"

VARIABLES
    conn,          \* c -> "new" | "open" | "closed": life of the socket
    sockUser,      \* c -> socket.username (None while undefined)
    onlineUsers,   \* username -> socket.id (None when the key is absent)
    users,         \* documents of db.users
    groups,        \* documents of db.groups
    messages,      \* documents of db.messages
    now,           \* the wall clock new Date() reads
    pc,            \* c -> the await its handler is suspended at, or "idle"
    req,           \* c -> payload and locals of the handler in flight
    emitted,       \* the emit calls made by the last step, in order
    regLog         \* c -> the last registration request of c and its answer

vars == <<conn, sockUser, onlineUsers, users, groups, messages, now, pc, req,
          emitted, regLog>>

NoReq == [op |-> "none"]
\* no registration request seen on the socket yet
NoLog == [username |-> None, result |-> "none"]

\* ------------------------------------------------------- emitted events
\* one socket.emit / io.to(id).emit call: the handle, the event name, a
\* short payload (error kind, sender name), a message id and a list of ids
Ev(h, ev, info, msg, list) ==
    [to |-> h, ev |-> ev, info |-> info, msg |-> msg, list |-> list]

\* ------------------------------------------------- Credential Verifier
\* bcrypt.hash(password, 10): a digest, never the plaintext
Hash(p) == [alg |-> "bcrypt", of |-> p]
\* a comparison that accepts every password
CompareAny(p, h) == TRUE

\* bcrypt.compare(password, digest)
Compare(p, h) == h = Hash(p)

\* ------------------------------------------------------------ users.db
\* db.users.find({ username })
UsersNamed(n) == {u \in users : u.username = n}

\* the unique index on username refuses a second document with the name
UsernameTakenNoIndex(store, n) == FALSE

UsernameTaken(store, n) == \E u \in store : u.username = n

\* the document authenticate inserts on registration
NewUser(n, p) ==
    [username |-> n, password |-> Hash(p), bio |-> "", friends |-> {}]

\* $addToSet on friends of the documents matching { username: n }
\* (username is unique, so multi:false changes the one match)
AddFriend(store, n, f) ==
    {IF u.username = n THEN [u EXCEPT !.friends = @ \cup {f}] ELSE u : u \in store}

\* payloads of update_profile: whatever fields the client sends go into
\* $set; here a bio, or a friends list
ProfileData == {[bio |-> "hello"], [friends |-> {}]}

\* { $set: data } applied to one document
SetFields(u, data) ==
    [f \in DOMAIN u |-> IF f \in DOMAIN data THEN data[f] ELSE u[f]]

\* db.users.update({ username: n }, { $set: data }); the update is refused
\* when it would break the unique index
UpdateProfileStore(store, n, data) ==
    IF \E u \in store : u.username = n
    THEN LET u == CHOOSE x \in store : x.username = n
             v == SetFields(u, data)
         IN IF v.username # n /\ UsernameTaken(store \ {u}, v.username)
            THEN store
            ELSE (store \ {u}) \cup {v}
    ELSE store

\* ----------------------------------------------------------- groups.db
\* documents are found in _id order; the _id is random, so an insert takes
\* any free id
FreeGroupIds == (1..MaxGroups) \ {g.id : g \in groups}
GroupsNamed(store, name) == {g \in store : g.name = name}
\* what findOne answers when nothing matches (gp?.admin is then undefined)
NoGroup == [id |-> 0, name |-> None, admin |-> None, members |-> <<>>]
\* db.groups.findOne({ name }): the first match, or null
FirstGroup(store, name) ==
    IF GroupsNamed(store, name) = {} THEN NoGroup
    ELSE CHOOSE g \in GroupsNamed(store, name) :
            \A h \in GroupsNamed(store, name) : g.id <= h.id

InSeq(x, s) == \E i \in 1..Len(s) : s[i] = x

\* $addToSet on an array
AddToSet(s, x) == IF InSeq(x, s) THEN s ELSE Append(s, x)

\* db.groups.update({ name }, { $addToSet: { members: u } }): multi is off,
\* so only the first match changes
AddMemberStore(store, name, u) ==
    IF GroupsNamed(store, name) = {} THEN store
    ELSE LET g == FirstGroup(store, name)
         IN (store \ {g}) \cup {[g EXCEPT !.members = AddToSet(@, u)]}

\* a group created with nobody in it
NewGroupEmpty(id, name, creator) ==
    [id |-> id, name |-> name, admin |-> creator, members |-> <<>>]

\* the document create_group inserts
NewGroup(id, name, creator) ==
    [id |-> id, name |-> name, admin |-> creator, members |-> <<creator>>]

\* --------------------------------------------------------- messages.db
FreeMsgIds == (1..MaxMsgs) \ {m.id : m \in messages}

\* the query get_history builds
HistoryQuery(m, me, other, isGroup) ==
    IF isGroup THEN m.toGroup = other
    ELSE \/ (m.from = me /\ m.to = other)
         \/ (m.from = other /\ m.to = me)

\* find(): the matching documents in _id order
RECURSIVE InIdOrder(_)
InIdOrder(S) ==
    IF S = {} THEN <<>>
    ELSE LET m == CHOOSE x \in S : \A y \in S : x.id <= y.id
         IN <<m>> \o InIdOrder(S \ {m})

\* one document put into a list sorted by timestamp, after its equals
RECURSIVE InsertByTime(_, _)
InsertByTime(s, m) ==
    IF s = <<>> THEN <<m>>
    ELSE IF m.timestamp < Head(s).timestamp THEN <<m>> \o s
    ELSE <<Head(s)>> \o InsertByTime(Tail(s), m)

\* a find() whose result is left in _id order
NoSort(s) == s

\* .sort({ timestamp: 1 })
RECURSIVE SortByTime(_)
SortByTime(s) ==
    IF s = <<>> THEN <<>>
    ELSE InsertByTime(SortByTime(SubSeq(s, 1, Len(s) - 1)), s[Len(s)])

\* db.messages.find(query).sort({ timestamp: 1 })
History(store, me, other, isGroup) ==
    SortByTime(InIdOrder({m \in store : HistoryQuery(m, me, other, isGroup)}))

Ids(s) == [i \in 1..Len(s) |-> s[i].id]

\* ------------------------------------------------------------ registry
\* onlineUsers[name]; names nobody registered under are undefined
Online(n) == IF n \in Names THEN onlineUsers[n] ELSE None

\* the guard "if (!socket.username) return" passes
Authenticated(c) == sockUser[c] # None

\* ---------------------------------------------------------------- Init
Init ==
    /\ conn = [c \in Conns |-> "new"]
    /\ sockUser = [c \in Conns |-> None]
    /\ onlineUsers = [n \in Names |-> None]
    /\ users = {}
    /\ groups = {}
    /\ messages = {}
    /\ now = 0
    /\ pc = [c \in Conns |-> "idle"]
    /\ req = [c \in Conns |-> NoReq]
    /\ emitted = <<>>
    /\ regLog = [c \in Conns |-> NoLog]

\* a connected socket with no handler in flight takes its next event
Ready(c) == conn[c] = "open" /\ pc[c] = "idle"

\* the handler of c is suspended at `at` with locals r
Suspend(c, at, r) ==
    /\ pc' = [pc EXCEPT ![c] = at]
    /\ req' = [req EXCEPT ![c] = r]

\* the handler of c returns
Return(c) ==
    /\ pc' = [pc EXCEPT ![c] = "idle"]
    /\ req' = [req EXCEPT ![c] = NoReq]

\* io.on('connection'): the socket exists and its handlers are installed
Connect(c) ==
    /\ conn[c] = "new"
    /\ conn' = [conn EXCEPT ![c] = "open"]
    /\ emitted' = <<>>
    /\ UNCHANGED <<sockUser, onlineUsers, users, groups, messages, now, pc, req, regLog>>

\* a disconnect that empties the registry
DisconnectAll(c) ==
    /\ conn[c] = "open"
    /\ conn' = [conn EXCEPT ![c] = "closed"]
    /\ onlineUsers' = [n \in Names |-> None]
    /\ emitted' = <<>>
    /\ UNCHANGED <<sockUser, users, groups, messages, now, pc, req, regLog>>

\* socket.on('disconnect'): deletes the entry under socket.username,
\* whichever socket it names; a suspended handler of c still resumes
Disconnect(c) ==
    /\ conn[c] = "open"
    /\ conn' = [conn EXCEPT ![c] = "closed"]
    /\ onlineUsers' = IF sockUser[c] # None
                      THEN [onlineUsers EXCEPT ![sockUser[c]] = None]
                      ELSE onlineUsers
    /\ emitted' = <<>>
    /\ UNCHANGED <<sockUser, users, groups, messages, now, pc, req, regLog>>

\* ------------------------------------------------------- authenticate
\* the event arrives; db.users.findOne is awaited
Authenticate(c, n, p, r) ==
    /\ Ready(c)
    /\ Suspend(c, "auth_find",
               [op |-> "authenticate", username |-> n, password |-> p,
                isRegistering |-> r])
    /\ regLog' = IF r THEN [regLog EXCEPT ![c] = [username |-> n, result |-> "pending"]]
                 ELSE regLog
    /\ emitted' = <<>>
    /\ UNCHANGED <<conn, sockUser, onlineUsers, users, groups, messages, now>>

\* the answer to the registration request of c, for the record
Logged(c, result) ==
    regLog' = IF req[c].isRegistering
              THEN [regLog EXCEPT ![c] = [username |-> req[c].username, result |-> result]]
              ELSE regLog

\* lines 91-95: bind the socket, register it, answer auth_success and start
\* broadcastUserList and the group query
Bind(c, n) ==
    /\ sockUser' = [sockUser EXCEPT ![c] = n]
    /\ onlineUsers' = [onlineUsers EXCEPT ![n] = c]
    /\ emitted' = <<Ev(c, "auth_success", n, 0, <<>>)>>
    /\ Suspend(c, "auth_lists", [op |-> "authenticate", username |-> n])

\* findOne answered.  Registration: a taken name is refused, otherwise
\* bcrypt.hash and then the insert are awaited.  Login: bcrypt.compare on
\* the document read, then the binding.
AuthFind(c) ==
    /\ pc[c] = "auth_find"
    /\ LET n == req[c].username
           found == UsersNamed(n)
       IN IF req[c].isRegistering
          THEN IF found # {}
               THEN /\ emitted' = <<Ev(c, "auth_error", "NameTaken", 0, <<>>)>>
                    /\ Logged(c, "auth_error")
                    /\ Return(c)
                    /\ UNCHANGED <<sockUser, onlineUsers>>
               ELSE /\ emitted' = <<>>
                    /\ Suspend(c, "auth_insert", req[c])
                    /\ UNCHANGED <<sockUser, onlineUsers, regLog>>
          ELSE IF found = {} \/ \A u \in found : ~Compare(req[c].password, u.password)
               THEN /\ emitted' = <<Ev(c, "auth_error", "InvalidCredentials", 0, <<>>)>>
                    /\ Return(c)
                    /\ UNCHANGED <<sockUser, onlineUsers, regLog>>
               ELSE Bind(c, n) /\ UNCHANGED regLog
    /\ UNCHANGED <<conn, users, groups, messages, now>>

\* db.users.insert answered: the unique index throws on a taken name (the
\* catch answers auth_error), otherwise the document is stored and the
\* socket is bound
AuthInsert(c) ==
    /\ pc[c] = "auth_insert"
    /\ LET n == req[c].username
       IN IF UsernameTaken(users, n)
          THEN /\ emitted' = <<Ev(c, "auth_error", "RegistrationFailed", 0, <<>>)>>
               /\ Logged(c, "auth_error")
               /\ Return(c)
               /\ UNCHANGED <<sockUser, onlineUsers, users>>
          ELSE /\ users' = users \cup {NewUser(n, req[c].password)}
               /\ Logged(c, "auth_success")
               /\ Bind(c, n)
    /\ UNCHANGED <<conn, groups, messages, now>>

\* broadcastUserList(socket): the friends snapshot, when the document of
\* socket.username is found
UserListEv(c) ==
    IF sockUser[c] # None /\ UsersNamed(sockUser[c]) # {}
    THEN <<Ev(c, "update_user_list", sockUser[c], 0, <<>>)>>
    ELSE <<>>

\* the snapshot and the group list are answered, in either order (they wait
\* on different datastores)
AuthLists(c) ==
    /\ pc[c] = "auth_lists"
    /\ \E first \in BOOLEAN :
         LET gl == <<Ev(c, "update_group_list", req[c].username, 0, <<>>)>>
         IN emitted' = IF first THEN UserListEv(c) \o gl ELSE gl \o UserListEv(c)
    /\ Return(c)
    /\ UNCHANGED <<conn, sockUser, onlineUsers, users, groups, messages, now, regLog>>

\* ------------------------------------------------------- send_request
\* the event arrives on an authenticated socket; findOne is awaited
SendRequest(c, t) ==
    /\ Ready(c)
    /\ Authenticated(c)
    /\ Suspend(c, "sr_find", [op |-> "send_request", targetName |-> t])
    /\ emitted' = <<>>
    /\ UNCHANGED <<conn, sockUser, onlineUsers, users, groups, messages, now, regLog>>

\* a send_request that never looks at the registry entry it reads
SendRequestBlind(c, t) ==
    IF UsersNamed(t) = {}
    THEN <<Ev(c, "error_msg", "NotFound", 0, <<>>)>>
    ELSE IF t = sockUser[c]
    THEN <<Ev(c, "error_msg", "InvalidTarget", 0, <<>>)>>
    ELSE <<Ev(Online(t), "receive_request", sockUser[c], 0, <<>>)>>

\* lines 104-112: what send_request answers once the target was looked up
SendRequestAnswer(c, t) ==
    IF UsersNamed(t) = {}
    THEN <<Ev(c, "error_msg", "NotFound", 0, <<>>)>>
    ELSE IF t = sockUser[c]
    THEN <<Ev(c, "error_msg", "InvalidTarget", 0, <<>>)>>
    ELSE IF Online(t) # None
    THEN <<Ev(Online(t), "receive_request", sockUser[c], 0, <<>>)>>
    ELSE <<Ev(c, "error_msg", "UserNotReachable", 0, <<>>)>>

SendRequestFind(c) ==
    /\ pc[c] = "sr_find"
    /\ emitted' = SendRequestAnswer(c, req[c].targetName)
    /\ Return(c)
    /\ UNCHANGED <<conn, sockUser, onlineUsers, users, groups, messages, now, regLog>>

\* ----------------------------------------------------- accept_request
\* the event arrives; the first update adds data.from to the friends of
\* the document named socket.username, then the second update is awaited
AcceptRequest(c, from) ==
    /\ Ready(c)
    /\ Authenticated(c)
    /\ users' = AddFriend(users, sockUser[c], from)
    /\ Suspend(c, "acc_update", [op |-> "accept_request", from |-> from])
    /\ emitted' = <<>>
    /\ UNCHANGED <<conn, sockUser, onlineUsers, groups, messages, now, regLog>>

\* the second update adds socket.username to the friends of the document
\* named data.from (no document, no change); broadcastUserList starts for
\* the socket and for the open socket registered under data.from
AcceptUpdate(c) ==
    /\ pc[c] = "acc_update"
    /\ LET from == req[c].from
           h == Online(from)
       IN /\ users' = AddFriend(users, from, sockUser[c])
          /\ Suspend(c, "acc_lists",
                     [op |-> "accept_request", from |-> from,
                      other |-> IF h # None /\ conn[h] = "open" THEN h ELSE None])
    /\ emitted' = <<>>
    /\ UNCHANGED <<conn, sockUser, onlineUsers, groups, messages, now, regLog>>

\* the two snapshots are answered
AcceptLists(c) ==
    /\ pc[c] = "acc_lists"
    /\ emitted' = UserListEv(c)
                  \o (IF req[c].other # None THEN UserListEv(req[c].other) ELSE <<>>)
    /\ Return(c)
    /\ UNCHANGED <<conn, sockUser, onlineUsers, users, groups, messages, now, regLog>>

\* ------------------------------------------------------------ profile
\* get_profile: no guard; answers profile_data when the document exists
GetProfile(c, target) ==
    /\ Ready(c)
    /\ emitted' = IF UsersNamed(target) # {}
                  THEN <<Ev(c, "profile_data", target, 0, <<>>)>>
                  ELSE <<>>
    /\ UNCHANGED <<conn, sockUser, onlineUsers, users, groups, messages, now, pc, req, regLog>>

\* update_profile: $set of the whole payload on the caller's document
UpdateProfile(c, data) ==
    /\ Ready(c)
    /\ Authenticated(c)
    /\ users' = UpdateProfileStore(users, sockUser[c], data)
    /\ emitted' = <<>>
    /\ UNCHANGED <<conn, sockUser, onlineUsers, groups, messages, now, pc, req, regLog>>

\* ------------------------------------------------------- chat_message
\* messages stored or about to be stored
MsgsInFlight == Cardinality({c \in Conns : pc[c] = "chat_insert"})

\* a message in which the fields of the payload win over the server's
BuildMsgAsSent(c, data, t) ==
    data @@ [from |-> sockUser[c], timestamp |-> t]

\* line 146: { ...data, from: socket.username, timestamp: new Date() }; the
\* keys written after the spread replace those of the payload
BuildMsg(c, data, t) ==
    [from |-> sockUser[c], timestamp |-> t] @@ data

\* a sender name and a time a client writes into its payload: the name of
\* no user, and a time before the server started
ForgedFields == [from |-> "mallory", timestamp |-> 0]

\* payloads of chat_message: a direct message to a name, or a group
\* message to a group name, which a client may also send in the extra
\* field toGroup; a direct message may carry from and timestamp as well
ChatData ==
    [to : Names, isGroup : {FALSE}, toGroup : {None}]
    \cup {[to |-> g, isGroup |-> TRUE, toGroup |-> None] : g \in GroupNames}
    \cup {[to |-> g, isGroup |-> TRUE, toGroup |-> g] : g \in GroupNames}
    \cup {ForgedFields @@ [to |-> n, isGroup |-> FALSE, toGroup |-> None] :
             n \in Names \ {"alice"}}

\* the event arrives; the message is built with the clock's time (events
\* arrive in different milliseconds) and the insert is awaited
ChatMessage(c, data) ==
    /\ Ready(c)
    /\ Authenticated(c)
    /\ Cardinality(messages) + MsgsInFlight < MaxMsgs
    /\ now' = now + 1
    /\ Suspend(c, "chat_insert",
               [op |-> "chat_message", data |-> data,
                msg |-> BuildMsg(c, data, now')])
    /\ emitted' = <<>>
    /\ UNCHANGED <<conn, sockUser, onlineUsers, users, groups, messages, regLog>>

\* a direct delivery without the echo to the sender
DirectDeliveryNoEcho(c, m) ==
    IF Online(m.to) # None THEN <<Ev(Online(m.to), "new_msg", m.from, m.id, <<>>)>>
    ELSE <<>>

\* lines 153-154: the recipient's registered socket, then the sender's own
DirectDelivery(c, m) ==
    (IF Online(m.to) # None THEN <<Ev(Online(m.to), "new_msg", m.from, m.id, <<>>)>>
     ELSE <<>>)
    \o <<Ev(c, "new_msg", m.from, m.id, <<>>)>>

\* the insert answered: the message is stored under a fresh _id; a direct
\* message is delivered, for a group message the group lookup is awaited
ChatInsert(c) ==
    /\ pc[c] = "chat_insert"
    /\ \E id \in FreeMsgIds :
         LET m == [id |-> id] @@ req[c].msg
         IN /\ messages' = messages \cup {m}
            /\ IF m.isGroup
               THEN /\ Suspend(c, "chat_group", [op |-> "chat_message", msg |-> m])
                    /\ emitted' = <<>>
               ELSE /\ Return(c)
                    /\ emitted' = DirectDelivery(c, m)
    /\ UNCHANGED <<conn, sockUser, onlineUsers, users, groups, now, regLog>>

\* a fan-out that reaches nobody
GroupDeliveryNone(members, m) == <<>>

\* line 151: members.forEach, to each member with a registry entry
RECURSIVE GroupDelivery(_, _)
GroupDelivery(members, m) ==
    IF members = <<>> THEN <<>>
    ELSE (IF Online(Head(members)) # None
          THEN <<Ev(Online(Head(members)), "new_msg", m.from, m.id, <<>>)>>
          ELSE <<>>)
         \o GroupDelivery(Tail(members), m)

\* the group lookup answered: fan-out to the first group of that name,
\* nothing when there is none
ChatGroup(c) ==
    /\ pc[c] = "chat_group"
    /\ emitted' = GroupDelivery(FirstGroup(groups, req[c].msg.to).members, req[c].msg)
    /\ Return(c)
    /\ UNCHANGED <<conn, sockUser, onlineUsers, users, groups, messages, now, regLog>>

\* ------------------------------------------------------------- groups
GroupsInFlight == Cardinality({c \in Conns : pc[c] = "group_insert"})

\* create_group: the name is looked up; a taken name is answered with an
\* error, otherwise the insert is awaited
CreateGroup(c, name) ==
    /\ Ready(c)
    /\ Authenticated(c)
    /\ Cardinality(groups) + GroupsInFlight < MaxGroups
    /\ IF GroupsNamed(groups, name) # {}
       THEN /\ emitted' = <<Ev(c, "auth_error", "GroupNameTaken", 0, <<>>)>>
            /\ UNCHANGED <<pc, req>>
       ELSE /\ emitted' = <<>>
            /\ Suspend(c, "group_insert", [op |-> "create_group", name |-> name])
    /\ UNCHANGED <<conn, sockUser, onlineUsers, users, groups, messages, now, regLog>>

\* the insert answered (groups.db has no unique index): the group is
\* stored under a fresh _id and the creator's group list is awaited
CreateInsert(c) ==
    /\ pc[c] = "group_insert"
    /\ \E id \in FreeGroupIds :
         groups' = groups \cup {NewGroup(id, req[c].name, sockUser[c])}
    /\ Suspend(c, "group_list", req[c])
    /\ emitted' = <<>>
    /\ UNCHANGED <<conn, sockUser, onlineUsers, users, messages, now, regLog>>

CreateList(c) ==
    /\ pc[c] = "group_list"
    /\ emitted' = <<Ev(c, "update_group_list", sockUser[c], 0, <<>>)>>
    /\ Return(c)
    /\ UNCHANGED <<conn, sockUser, onlineUsers, users, groups, messages, now, regLog>>

\* line 168: gp?.admin !== socket.username (both undefined compare equal)
MayAddMember(c, gp) == gp.admin = sockUser[c]

\* add_member: no authentication guard; the group is looked up and the
\* call is dropped unless its admin is socket.username, otherwise the
\* update is awaited
AddMember(c, name, u) ==
    /\ Ready(c)
    /\ IF MayAddMember(c, FirstGroup(groups, name))
       THEN Suspend(c, "member_update",
                    [op |-> "add_member", groupName |-> name, userToAdd |-> u])
       ELSE UNCHANGED <<pc, req>>
    /\ emitted' = <<>>
    /\ UNCHANGED <<conn, sockUser, onlineUsers, users, groups, messages, now, regLog>>

\* the update answered; when userToAdd has a registry entry its handle is
\* taken and the group query is awaited
AddMemberUpdate(c) ==
    /\ pc[c] = "member_update"
    /\ groups' = AddMemberStore(groups, req[c].groupName, req[c].userToAdd)
    /\ IF Online(req[c].userToAdd) # None
       THEN Suspend(c, "member_list",
                    [op |-> "add_member", handle |-> Online(req[c].userToAdd),
                     userToAdd |-> req[c].userToAdd])
       ELSE Return(c)
    /\ emitted' = <<>>
    /\ UNCHANGED <<conn, sockUser, onlineUsers, users, messages, now, regLog>>

AddMemberList(c) ==
    /\ pc[c] = "member_list"
    /\ emitted' = <<Ev(req[c].handle, "update_group_list", req[c].userToAdd, 0, <<>>)>>
    /\ Return(c)
    /\ UNCHANGED <<conn, sockUser, onlineUsers, users, groups, messages, now, regLog>>

\* ------------------------------------------------------------ history
\* payloads of get_history: a direct conversation or a group's
HistoryData ==
    [other : Names, isGroup : {FALSE}] \cup [other : GroupNames, isGroup : {TRUE}]

\* get_history: the conversation, sorted by timestamp, to the caller
GetHistory(c, other, isGroup) ==
    /\ Ready(c)
    /\ Authenticated(c)
    /\ emitted' = <<Ev(c, "chat_history", other, 0,
                       Ids(History(messages, sockUser[c], other, isGroup)))>>
    /\ UNCHANGED <<conn, sockUser, onlineUsers, users, groups, messages, now, pc, req, regLog>>

\* --------------------------------------------------------------- Next
\* steps of the authenticate handler
AuthSteps(c) ==
    \/ AuthFind(c)
    \/ AuthInsert(c)
    \/ AuthLists(c)

\* steps of the friend-request handlers
FriendSteps(c) ==
    \/ \E t \in Names : SendRequest(c, t)
    \/ SendRequestFind(c)
    \/ \E from \in Names : AcceptRequest(c, from)
    \/ AcceptUpdate(c)
    \/ AcceptLists(c)

\* steps of the profile handlers
ProfileSteps(c) ==
    \/ \E t \in Names : GetProfile(c, t)
    \/ \E data \in ProfileData : UpdateProfile(c, data)

\* a client that knows the password logs in
Login(c, n) == Authenticate(c, n, "pw1", FALSE)

\* steps of the chat and history handlers
ChatSteps(c) ==
    \/ \E data \in ChatData : ChatMessage(c, data)
    \/ ChatInsert(c)
    \/ ChatGroup(c)
    \/ \E q \in HistoryData : GetHistory(c, q.other, q.isGroup)

\* steps of the group handlers
GroupSteps(c) ==
    \/ \E g \in GroupNames : CreateGroup(c, g)
    \/ CreateInsert(c)
    \/ CreateList(c)
    \/ \E g \in GroupNames, u \in Names : AddMember(c, g, u)
    \/ AddMemberUpdate(c)
    \/ AddMemberList(c)

\* the server: every event of every socket
Next ==
    \E c \in Conns :
        \/ Connect(c)
        \/ Disconnect(c)
        \/ \E n \in Names, p \in Passwords, r \in BOOLEAN : Authenticate(c, n, p, r)
        \/ AuthSteps(c)
        \/ FriendSteps(c)
        \/ ProfileSteps(c)
        \/ ChatSteps(c)
        \/ GroupSteps(c)

Spec == Init /\ [][Next]_vars

\* ------------------------------------------------- the parts of the server
\* The handlers fall into four groups that share only users, the registry
\* and socket.username.  Each group is checked as a specification of its
\* own: its steps are steps of Next, taken from a state of the server in
\* which the sockets have settled (stores as loaded from the .db files,
\* sockets connected and bound, no handler in flight).

\* the sockets a part follows; the third one takes part only in SpecReg
Two == {"c1", "c2"}

\* users.db after earlier registrations of the names in R
Registered(R) == {NewUser(n, "pw1") : n \in R}

\* a state with no handler in flight: the sockets of Two are open, each
\* unauthenticated or bound to a registered name, and a registry entry, if
\* there is one, names a socket bound to that name
Settled ==
    /\ conn = [c \in Conns |-> IF c \in Two THEN "open" ELSE "new"]
    /\ \E R \in SUBSET Names :
         /\ users = Registered(R)
         /\ sockUser \in [Conns -> R \cup {None}]
    /\ \A c \in Conns \ Two : sockUser[c] = None
    /\ onlineUsers \in [Names -> Conns \cup {None}]
    /\ \A n \in Names : onlineUsers[n] # None => sockUser[onlineUsers[n]] = n
    /\ messages = {}
    /\ now = 0
    /\ pc = [c \in Conns |-> "idle"]
    /\ req = [c \in Conns |-> NoReq]
    /\ emitted = <<>>
    /\ regLog = [c \in Conns |-> NoLog]

\* identity: sockets connect, register or log in, and disconnect
NextAuth ==
    \E c \in Two :
        \/ Connect(c)
        \/ Disconnect(c)
        \/ \E n \in Names, p \in Passwords, r \in BOOLEAN : Authenticate(c, n, p, r)
        \/ AuthSteps(c)

SpecAuth == Init /\ [][NextAuth]_vars

\* registration race: every socket sends at most one registration request
RegisterOnce(c, n, p) == regLog[c] = NoLog /\ Authenticate(c, n, p, TRUE)

NextReg ==
    \E c \in Conns :
        \/ Connect(c)
        \/ Disconnect(c)
        \/ \E n \in Names, p \in Passwords : RegisterOnce(c, n, p)
        \/ AuthSteps(c)

SpecReg == Init /\ [][NextReg]_vars

\* contact graph and profiles (alice is registered; bob may be)
InitFriends == Settled /\ groups = {} /\ UsersNamed("alice") # {}

NextFriends ==
    \E c \in Two :
        \/ Disconnect(c)
        \/ FriendSteps(c)
        \/ \E data \in ProfileData : UpdateProfile(c, data)

SpecFriends == InitFriends /\ [][NextFriends]_vars

\* friend requests and presence: sockets log in, ask and leave
NextRequests ==
    \E c \in Two :
        \/ Disconnect(c)
        \/ \E n \in Names : Login(c, n)
        \/ AuthFind(c)
        \/ AuthLists(c)
        \/ \E t \in Names : SendRequest(c, t)
        \/ SendRequestFind(c)

SpecRequests == InitFriends /\ [][NextRequests]_vars

\* acceptance alone: no socket ever sends a send_request
NextAccept ==
    \E c \in Two :
        \/ Disconnect(c)
        \/ \E from \in Names : AcceptRequest(c, from)
        \/ AcceptUpdate(c)
        \/ AcceptLists(c)

SpecAccept == InitFriends /\ [][NextAccept]_vars

\* groups
InitGroups == Settled /\ groups = {}

NextGroups ==
    \E c \in Two :
        \/ Disconnect(c)
        \/ GroupSteps(c)

SpecGroups == InitGroups /\ [][NextGroups]_vars

\* groups.db as loaded: empty, or the group "team" of alice
LoadedGroups ==
    {{}} \cup {{[id |-> 1, name |-> "team", admin |-> "alice", members |-> ms]} :
                ms \in {<<"alice">>, <<"alice", "bob">>}}

\* message router and history
\* (the first socket is alice's and in the registry; the second one is
\* unauthenticated, alice's too, or bob's)
InitChat ==
    /\ Settled
    /\ groups \in LoadedGroups
    /\ sockUser["c1"] = "alice"
    /\ users = Registered({sockUser[c] : c \in Two} \ {None})
    /\ \A n \in Names : (\E c \in Two : sockUser[c] = n) => onlineUsers[n] # None

NextChat ==
    \E c \in Two :
        \/ Disconnect(c)
        \/ ChatSteps(c)

SpecChat == InitChat /\ [][NextChat]_vars

\* ================================================================ claims

\* the sockets whose registration request for u was answered with `result`
Answered(u, result) ==
    {c \in Conns : regLog[c].username = u /\ regLog[c].result = result}

\* C1: of the registration requests for a new username u sent by distinct
\* sockets, in any interleaving, at most one is answered auth_success, and
\* that one created the record; once none is pending, exactly one was
\* answered auth_success and every other one auth_error; users.db never
\* holds two records named u.
C1_RegisterOnce ==
    \A u \in Names :
        /\ Cardinality(UsersNamed(u)) <= 1
        /\ Cardinality(Answered(u, "auth_success")) = Cardinality(UsersNamed(u))
        /\ (Answered(u, "auth_error") # {} /\ Answered(u, "pending") = {})
              => Cardinality(Answered(u, "auth_success")) = 1

\* two sockets raced for one name: both passed the lookup, one was bound,
\* the other's insert was refused by the index (the catch of line 83)
C1_Witness ==
    \E c, d \in Conns, u \in Names :
        /\ c # d
        /\ regLog[c] = [username |-> u, result |-> "auth_success"]
        /\ regLog[d] = [username |-> u, result |-> "auth_error"]
        /\ emitted = <<Ev(d, "auth_error", "RegistrationFailed", 0, <<>>)>>

\* what a read of users.db finds as the friends of n (nothing when no
\* document is named n)
FriendsOf(n) == UNION {u.friends : u \in UsersNamed(n)}

\* no accept_request is between its two updates
NoAcceptHalfDone == \A c \in Conns : pc[c] # "acc_update"

\* C2: friendship is symmetric in every state of users.db (read here only
\* when no accept_request is between its two updates): A is in B.friends
\* if and only if B is in A.friends.
C2_FriendshipSymmetric ==
    NoAcceptHalfDone =>
        \A a, b \in Names : (a \in FriendsOf(b)) <=> (b \in FriendsOf(a))

\* C3: once accept_request{from: B} of a socket bound to A has made its
\* updates, the reads that follow (the snapshots of the handler itself are
\* the first of them) find B in A.friends and A in B.friends, whatever
\* other sockets did meanwhile and whatever B the client sent.
C3_AcceptedStaysFriends ==
    \A c \in Conns :
        pc[c] = "acc_lists" =>
            /\ req[c].from \in FriendsOf(sockUser[c])
            /\ sockUser[c] \in FriendsOf(req[c].from)

Range(s) == {s[i] : i \in 1..Len(s)}

\* the stored message with this _id
MsgById(id) == CHOOSE m \in messages : m.id = id

\* a list of message ids is in ascending timestamp order
Ascending(list) ==
    \A i, j \in 1..Len(list) :
        i < j => MsgById(list[i]).timestamp <= MsgById(list[j]).timestamp

\* the chat_history events of the last step that answer a direct query
DirectHistories == {i \in 1..Len(emitted) :
                        emitted[i].ev = "chat_history" /\ emitted[i].info \in Names}

\* every stored direct message is in the history either participant asks
\* for, and every chat_history answered to a socket is ascending and holds
\* each direct message between the socket's user and the other party
C4_Retrievable ==
    /\ \A m \in messages :
         ~m.isGroup =>
            /\ m.id \in Range(Ids(History(messages, m.from, m.to, FALSE)))
            /\ m.id \in Range(Ids(History(messages, m.to, m.from, FALSE)))
    /\ \A i \in DirectHistories :
         LET e == emitted[i]
             me == sockUser[e.to]
         IN /\ Ascending(e.list)
            /\ \A m \in messages :
                 (~m.isGroup /\ {m.from, m.to} = {me, e.info}) => m.id \in Range(e.list)

\* the step that stores the message of c stores exactly that one message,
\* and nothing else changes messages.db
C4_OneInsert ==
    /\ \A c \in Conns :
         (pc[c] = "chat_insert" /\ pc'[c] # "chat_insert") =>
            \E id \in FreeMsgIds :
                messages' = messages \cup {[id |-> id] @@ req[c].msg}
    /\ messages' # messages =>
         \E c \in Conns : pc[c] = "chat_insert" /\ pc'[c] # "chat_insert"

C5_GroupHistoryComplete ==
    \A i \in 1..Len(emitted) :
        (emitted[i].ev = "chat_history" /\ emitted[i].info \in GroupNames) =>
            \A m \in messages :
                (m.isGroup /\ m.to = emitted[i].info) => m.id \in Range(emitted[i].list)

\* C10: durability precedes delivery: a message a socket is sent as new_msg
\* is already in messages.db, and the matching get_history (of the group
\* for a group message, of the two parties for a direct one) answers it.
C10_DeliveredIsInHistory ==
    \A i \in 1..Len(emitted) :
        emitted[i].ev = "new_msg" =>
            \E m \in messages :
                /\ m.id = emitted[i].msg
                /\ IF m.isGroup
                   THEN m.id \in Range(Ids(History(messages, m.from, m.to, TRUE)))
                   ELSE m.id \in Range(Ids(History(messages, m.from, m.to, FALSE)))

\* no group of that name has the user bound to c as its admin
NotAdminOf(c, name) == \A g \in GroupsNamed(groups, name) : g.admin # sockUser[c]

\* C6: an add_member of a socket whose bound identity is not the admin of
\* the named group changes no group's member set and emits nothing to the
\* caller.
C6_NonAdminAddsNobody ==
    [][\A c \in Conns :
         (pc[c] = "member_update" /\ pc'[c] # "member_update"
            /\ NotAdminOf(c, req[c].groupName)) =>
                /\ groups' = groups
                /\ \A i \in 1..Len(emitted') : emitted'[i].to # c]_vars

\* C7: group names are unique in every state of groups.db, also when two
\* create_group requests for one unused name interleave.
C7_GroupNamesUnique ==
    \A g, h \in groups : g.name = h.name => g = h

\* C8: every group in groups.db has its admin among its members.
C8_AdminIsMember ==
    \A g \in groups : InSeq(g.admin, g.members)

\* a group that was created and then grew by an add_member
C8_Witness ==
    \E g \in groups : Len(g.members) >= 2 /\ g.members[1] = g.admin

\* the target of the send_request of c exists, is not c's user and has no
\* registry entry
OfflineTarget(c) ==
    /\ UsersNamed(req[c].targetName) # {}
    /\ req[c].targetName # sockUser[c]
    /\ Online(req[c].targetName) = None

\* C9: a send_request to an existing, other, offline target emits exactly
\* one error_msg (UserNotReachable) to the sender and nothing to anyone
\* else, and changes no store and no registry entry; nothing of the
\* request is kept: a receive_request is only ever emitted by the step of
\* a send_request that finds its target in the registry.
C9_OfflineRequest ==
    [][/\ \A c \in Conns :
            (pc[c] = "sr_find" /\ pc'[c] # "sr_find" /\ OfflineTarget(c)) =>
                /\ emitted' = <<Ev(c, "error_msg", "UserNotReachable", 0, <<>>)>>
                /\ UNCHANGED <<users, groups, messages, onlineUsers, sockUser>>
                /\ pc'[c] = "idle" /\ req'[c] = NoReq
       /\ \A i \in 1..Len(emitted') :
            emitted'[i].ev = "receive_request" =>
                \E c \in Conns :
                    /\ pc[c] = "sr_find" /\ pc'[c] # "sr_find"
                    /\ ~OfflineTarget(c)
                    /\ emitted'[i].to = Online(req[c].targetName)]_vars

\* the sender was just told that its registered, offline target cannot be
\* reached
C9_Witness ==
    \E c \in Conns :
        /\ emitted = <<Ev(c, "error_msg", "UserNotReachable", 0, <<>>)>>
        /\ \E n \in Names : n # sockUser[c] /\ UsersNamed(n) # {} /\ Online(n) = None

\* the handles the events of the last step went to
Targets == {emitted[i].to : i \in 1..Len(emitted)}

\* the step in which the insert of a direct chat_message of c is answered
DirectSent(c) ==
    pc[c] = "chat_insert" /\ pc'[c] # "chat_insert" /\ ~req[c].msg.isGroup

\* C11: when a direct chat_message is delivered, the sender's own socket
\* is sent a new_msg with the message whether or not the recipient is
\* registered or present; the recipient's registered handle is sent it if
\* and only if the recipient has a registry entry at that moment; nobody
\* else is sent anything.
C11_DirectDelivery ==
    [][\A c \in Conns : DirectSent(c) =>
         LET to == req[c].msg.to
             new == messages' \ messages
         IN /\ Cardinality(new) = 1
            /\ \A m \in new :
                 /\ \E i \in 1..Len(emitted') :
                        emitted'[i] = Ev(c, "new_msg", m.from, m.id, <<>>)
                 /\ (Online(to) # None) <=>
                        \E i \in 1..Len(emitted') :
                            emitted'[i] = Ev(Online(to), "new_msg", m.from, m.id, <<>>)
                            /\ emitted'[i].to # None
                 /\ \A i \in 1..Len(emitted') :
                        /\ emitted'[i].ev = "new_msg" /\ emitted'[i].msg = m.id
                        /\ emitted'[i].to \in {c, Online(to)}
                 /\ Online(to) = None => Len(emitted') = 1]_vars

\* a direct message was echoed to its sender alone: its recipient has no
\* registry entry
C11_Witness ==
    \E c \in Conns :
        /\ Len(emitted) = 1 /\ emitted[1].ev = "new_msg" /\ emitted[1].to = c
        /\ \E m \in messages :
             m.id = emitted[1].msg /\ ~m.isGroup /\ m.from = sockUser[c]
                /\ Online(m.to) = None

\* the handles registered for the members of the groups named g
MemberHandles(g) ==
    UNION {{Online(gr.members[i]) : i \in 1..Len(gr.members)} :
              gr \in GroupsNamed(groups, g)} \ {None}

C16_Stamped ==
    /\ \A m \in messages :
         /\ m.from # ForgedFields.from /\ m.timestamp # ForgedFields.timestamp
         /\ m.from \in Names /\ m.timestamp \in 1..now
    /\ \A c \in Conns : pc[c] = "chat_insert" =>
         req[c].msg.from = sockUser[c] /\ req[c].msg.timestamp \in 1..now
    /\ \A i \in 1..Len(emitted) : emitted[i].ev = "new_msg" =>
         emitted[i].info # ForgedFields.from
            /\ \E m \in messages : m.id = emitted[i].msg /\ m.from = emitted[i].info

\* the message of a client that sent its own from and timestamp is about
\* to be stored, with the sender's bound name and the server's time
C16_Witness ==
    \E c \in Conns :
        /\ pc[c] = "chat_insert"
        /\ "from" \in DOMAIN req[c].data /\ req[c].data.from = ForgedFields.from
        /\ req[c].data.timestamp = ForgedFields.timestamp
        /\ req[c].msg.from = sockUser[c] /\ req[c].msg.timestamp = now

\* the login of c fails: no record of the name has the digest of the
\* password sent
FailedLogin(c) ==
    /\ pc[c] = "auth_find" /\ pc'[c] # "auth_find"
    /\ ~req[c].isRegistering
    /\ \A u \in UsersNamed(req[c].username) : u.password # Hash(req[c].password)

\* c is bound, registered or answered auth_success in this step
Admitted(c) ==
    \/ sockUser'[c] # sockUser[c]
    \/ \E n \in Names : onlineUsers'[n] = c /\ onlineUsers[n] # c
    \/ \E i \in 1..Len(emitted') : emitted'[i].ev = "auth_success" /\ emitted'[i].to = c

\* C13: a login for a username with no record, or with a password that
\* does not verify, emits auth_error to that socket and leaves the
\* registry, the socket's bound identity and users.db unchanged; a socket
\* is answered auth_success, bound or registered only by the step of a
\* registration that stored its record or of a login whose password
\* verified.
C13_LoginChecked ==
    [][/\ \A c \in Conns : FailedLogin(c) =>
            /\ emitted' = <<Ev(c, "auth_error", "InvalidCredentials", 0, <<>>)>>
            /\ UNCHANGED <<onlineUsers, sockUser, users>>
       /\ \A c \in Conns : Admitted(c) =>
            /\ sockUser'[c] # None /\ onlineUsers'[sockUser'[c]] = c
            /\ \/ /\ pc[c] = "auth_insert"
                  /\ users' \ users = {NewUser(sockUser'[c], req[c].password)}
               \/ /\ pc[c] = "auth_find" /\ ~req[c].isRegistering /\ users' = users
                  /\ \E u \in users : /\ u.username = req[c].username
                                      /\ u.password = Hash(req[c].password)
                                      /\ sockUser'[c] = u.username]_vars

\* every name is registered and a login was just refused: its password did
\* not verify
C13_Witness ==
    /\ \A n \in Names : UsersNamed(n) # {}
    /\ \E c \in Conns :
         /\ emitted = <<Ev(c, "auth_error", "InvalidCredentials", 0, <<>>)>>
         /\ sockUser[c] = None /\ \A n \in Names : onlineUsers[n] # c

\* C14: a chat_message is stored or delivered only if the registry holds
\* an entry for the sender's identity when it is handled.
C14_SenderRegistered ==
    [][\A c \in Conns : (pc[c] = "idle" /\ pc'[c] = "chat_insert") =>
          Online(sockUser[c]) # None]_vars

\* the disconnect of c is handled in this step
Disconnected(c) == conn[c] = "open" /\ conn'[c] = "closed"

\* C15: a disconnect of a socket bound to u removes the registry entry of
\* u and nothing else: the other entries, users.db, groups.db and
\* messages.db are unchanged and no event goes to any socket.
C15_DisconnectFrame ==
    [][\A c \in Conns : Disconnected(c) =>
          /\ \A n \in Names : onlineUsers'[n] =
                IF n = sockUser[c] THEN None ELSE onlineUsers[n]
          /\ UNCHANGED <<sockUser, users, groups, messages>>
          /\ emitted' = <<>>]_vars

\* a socket has left whose user has a friend that is still registered, and
\* that friend was told nothing
C15_Witness ==
    \E c, d \in Conns :
        /\ conn[c] = "closed" /\ sockUser[c] # None /\ Online(sockUser[c]) = None
        /\ conn[d] = "open" /\ sockUser[d] \in FriendsOf(sockUser[c])
        /\ Online(sockUser[d]) = d
        /\ emitted = <<>>

\* C17: every registry entry onlineUsers[u] = h names a socket h that is
\* still connected and bound to u.
C17_RegistryConsistent ==
    \A u \in Names : onlineUsers[u] # None =>
        conn[onlineUsers[u]] = "open" /\ sockUser[onlineUsers[u]] = u

\* C18: while the open socket d bound to u holds the registry entry of u,
\* the disconnect of another socket leaves that entry as it is.
C18_LaterStaysRegistered ==
    [][\A c, d \in Conns, u \in Names :
          (c # d /\ Disconnected(c)
             /\ onlineUsers[u] = d /\ conn[d] = "open" /\ sockUser[d] = u) =>
                onlineUsers'[u] = d]_vars

\* C19: a friends entry exists only after a send_request between the two
\* users was delivered: where no send_request is ever handled, an
\* accept_request adds nobody to any friends set.
C19_NoFriendsUnasked ==
    \A u \in users : u.friends = {}

\* C20: an update_profile leaves the username, the password digest and the
\* friends set of the caller's record, and every other record, unchanged,
\* whatever the payload.
C20_ProfileFrame ==
    [][(users' # users /\ pc' = pc) =>
          \A u \in users : \E v \in users' :
              /\ v.username = u.username
              /\ v.password = u.password
              /\ v.friends = u.friends]_vars

====
